---- MODULE Spec2Model ----
(***************************************************************************)
(* One run of src/python/transcribe.py: the command-line driver of the     *)
(* Whisper dictation app.  A run parses its arguments, probes the three    *)
(* optional libraries, checks that the audio file exists, loads the model, *)
(* runs inference, maps the result and prints it as JSON.                  *)
(*                                                                         *)
(* The inputs of a run are its command line (argv), the set of files that  *)
(* exist (fs), and the behaviour of the collaborators the script calls:    *)
(* the import system, whisper.load_model and Model.transcribe.  The        *)
(* library calls either return or raise an exception derived from          *)
(* Exception (RuntimeError, OSError, ...); an interrupt delivered by the   *)
(* user while a call blocks is outside this model.                         *)
(*                                                                         *)
(* A line written to standard output is a log line of the logger (whose    *)
(* StreamHandler writes to sys.stdout), a line of argparse's help text, or *)
(* the text json.dumps produced; the latter is represented by the JSON     *)
(* value it denotes.                                                       *)
(***************************************************************************)
EXTENDS Naturals, Integers, Sequences, FiniteSets, TLC

\* ---------------------------------------------------------------- bounds
NumPaths == 2
MaxSegments == 1
MaxArgs == 3

\* ----------------------------------------------------------- the inputs
AudioPath(i) == "/audio/clip" \o ToString(i) \o ".wav"
Paths == {AudioPath(i) : i \in 1..NumPaths}

\* choices=[...] of --model, in the order the source lists them
ModelChoices == <<"tiny", "base", "small", "medium", "large">>
ModelDefault == "base"
\* what a caller may pass as --model: the choices and two other names
ModelArgs == {ModelChoices[i] : i \in DOMAIN ModelChoices} \cup {"huge", "Base"}
Languages == {"en"}

\* A value that may be missing: an option not yet seen, Python's None.
Given(v) == [given |-> TRUE, val |-> v]
Absent == [given |-> FALSE, val |-> ""]

\* One option of the command line with its value; -h/--help, which the
\* parser adds by default, takes none.
Opt(flag, val) == [flag |-> flag, val |-> val]
Options ==
    {Opt("--audio_path", v) : v \in Paths} \cup {Opt("--model", v) : v \in ModelArgs}
      \cup {Opt("--language", v) : v \in Languages} \cup {Opt("--help", "")}

\* The command lines: up to MaxArgs options in any order, repeats included.
Argvs == UNION {[1..n -> Options] : n \in 0..MaxArgs}

\* ------------------------------------------------------------ exceptions
Exc(cls, msg) == [cls |-> cls, msg |-> msg, code |-> 0]
SystemExit(code) == [cls |-> "SystemExit", msg |-> "", code |-> code]

\* The classes an exception of class cls is an instance of (Python's
\* built-in hierarchy, as far as the except clauses of the script see it).
Mro(cls) ==
    CASE cls = "SystemExit" -> {"SystemExit", "BaseException"}
      [] cls = "ModuleNotFoundError" ->
             {"ModuleNotFoundError", "ImportError", "Exception", "BaseException"}
      [] OTHER -> {cls, "Exception", "BaseException"}

IsInstance(e, cls) == cls \in Mro(e.cls)

\* A faulty str(e): the repr of the exception instead of its message.
StrRepr(e) == e.cls \o "('" \o e.msg \o "')"

\* str(e): the message; a KeyError shows the repr of its key; a SystemExit
\* shows its code.
Str(e) ==
    CASE e.cls = "KeyError" -> "'" \o e.msg \o "'"
      [] e.cls = "SystemExit" -> ToString(e.code)
      [] OTHER -> e.msg

\* ----------------------------------------------------------- JSON values
JStr(s) == [t |-> "str", s |-> s, items |-> <<>>]
JList(items) == [t |-> "list", s |-> "", items |-> items]

\* A Python dict: its items in insertion order.
Item(k, v) == [key |-> k, val |-> v]
Keys(d) == {d[i].key : i \in DOMAIN d}
HasKey(d, k) == k \in Keys(d)
Get(d, k) == d[CHOOSE i \in DOMAIN d : d[i].key = k].val

\* json.dumps accepts str and lists of dicts of plain values; any other
\* object (a tensor left in a segment) makes it raise TypeError.
Serializable(v) ==
    \/ v.t = "str"
    \/ v.t = "list" /\ \A i \in DOMAIN v.items : v.items[i].tokens = "list"

DictSerializable(d) == \A i \in DOMAIN d : Serializable(d[i].val)

NotSerializableError == Exc("TypeError", "Object of type Tensor is not JSON serializable")

\* ------------------------------------------------- the Whisper capability
Segment(i, tok) == [id |-> i - 1, text |-> "seg" \o ToString(i), tokens |-> tok]
Segments(n, tok) == [i \in 1..n |-> Segment(i, tok)]

FullResult(n, tok, lang) ==
    << Item("text", JStr("text" \o ToString(n))),
       Item("segments", JList(Segments(n, tok))),
       Item("language", JStr(lang)) >>

WithExtra(d) == Append(d, Item("duration", JStr("1.0")))
Without(d, k) == SelectSeq(d, LAMBDA it : it.key # k)

\* What Model.transcribe may return: the documented three fields, possibly
\* with further ones, possibly (library drift) with one of them missing,
\* possibly with an object json cannot serialise inside a segment.
WhisperResults ==
    LET full == {FullResult(n, tok, lang) :
                   n \in 0..MaxSegments, tok \in {"list", "Tensor"}, lang \in Languages}
    IN  full \cup {WithExtra(d) : d \in full}
             \cup {Without(d, k) : d \in full, k \in {"text", "language"}}

\* What a library call may raise.
LibraryErrors == {Exc("RuntimeError", "CUDA out of memory"),
                  Exc("FileNotFoundError", "ffmpeg")}

\* The three imports of the probe, in source order, and what an import can do.
ProbeModules == <<"whisper", "torch", "numpy">>
ImportOutcomes == {"ok", "ModuleNotFoundError", "ImportError", "OSError"}

\* -------------------------------------------------------------- the state
VARIABLES
    argv,      \* the command line of this run
    fs,        \* the paths that exist on disk
    pc,        \* where the run is
    args,      \* the Namespace setup_argparse returned
    deps,      \* what check_dependencies returned
    raw,       \* what model.transcribe returned
    result,    \* main's (and transcribe_audio's) result dict
    stdout,    \* the lines written to standard output, in order
    stderr,    \* the lines written to standard error, in order
    exitCode,  \* the process exit status, -1 while the run is going
    trace,     \* the calls made so far: [step, out]
    handled    \* the exceptions caught so far: [by, exc]

vars == <<argv, fs, pc, args, deps, raw, result, stdout, stderr, exitCode, trace, handled>>

NoArgs == [audio_path |-> "", model |-> "", language |-> Absent]

Init ==
    /\ argv \in Argvs
    /\ fs \in SUBSET Paths
    /\ pc = "main"
    /\ args = NoArgs
    /\ deps = FALSE
    /\ raw = <<>>
    /\ result = <<>>
    /\ stdout = <<>>
    /\ stderr = <<>>
    /\ exitCode = -1
    /\ trace = <<>>
    /\ handled = <<>>

\* ------------------------------------------------------------ the output
LogLine(level, msg) == [kind |-> "log", level |-> level, msg |-> msg, json |-> <<>>]
JsonLine(d) == [kind |-> "json", level |-> "", msg |-> "", json |-> d]
TextLine(t) == [kind |-> "text", level |-> "", msg |-> t, json |-> <<>>]
ErrorDict(msg) == << Item("error", JStr(msg)) >>
Call(step, out) == [step |-> step, out |-> out]
Caught(by, e) == [by |-> by, exc |-> e]

JsonLines(out) == SelectSeq(out, LAMBDA l : l.kind = "json")


\* ------------------------------------------------------- setup_argparse
\* A faulty --model: declared without choices, so that any name is taken.
IsChoiceAny(m) == TRUE

IsChoice(m) == \E i \in DOMAIN ModelChoices : ModelChoices[i] = m

\* The items of seq, each between quotes q, joined by sep.
RECURSIVE Join(_, _, _)
Join(seq, sep, q) ==
    IF seq = <<>> THEN ""
    ELSE q \o Head(seq) \o q \o (IF Len(seq) = 1 THEN "" ELSE sep \o Join(Tail(seq), sep, q))

\* The usage text argparse derives from the three add_argument calls.
UsageLines ==
    << "usage: transcribe.py [-h] --audio_path AUDIO_PATH",
       "                     [--model {" \o Join(ModelChoices, ",", "") \o "}]",
       "                     [--language LANGUAGE]" >>

\* What -h/--help prints on standard output.
HelpLines ==
    UsageLines \o
    << "", "Transcribe audio using Whisper", "", "options:",
       "  -h, --help            show this help message and exit",
       "  --audio_path AUDIO_PATH",
       "                        Path to audio file",
       "  --model {" \o Join(ModelChoices, ",", "") \o "}",
       "                        Whisper model size",
       "  --language LANGUAGE   Language code (optional)" >>

InvalidChoice(v) ==
    "argument --model: invalid choice: '" \o v \o "' (choose from "
       \o Join(ModelChoices, ", ", "'") \o ")"

\* The Namespace before any option is read: the defaults of lines 27-30.
Defaults == [audio_path |-> Absent, model |-> ModelDefault, language |-> Absent]

\* argparse reads the options from left to right, with ns what it has read
\* so far.  -h/--help ends the parse at once with the help text; a --model
\* value outside choices ends it at once with a usage error; a later value
\* of an option replaces an earlier one; --audio_path is found missing only
\* once the whole command line is read.
RECURSIVE Consume(_, _)
Consume(av, ns) ==
    IF av = <<>>
    THEN IF ns.audio_path.given
         THEN [kind |-> "ok", err |-> "",
               ns |-> [audio_path |-> ns.audio_path.val, model |-> ns.model,
                       language |-> ns.language]]
         ELSE [kind |-> "error", ns |-> NoArgs,
               err |-> "the following arguments are required: --audio_path"]
    ELSE LET o == Head(av)
         IN  CASE o.flag = "--help" -> [kind |-> "help", ns |-> NoArgs, err |-> ""]
               [] o.flag = "--model" ->
                    IF IsChoice(o.val)
                    THEN Consume(Tail(av), [ns EXCEPT !.model = o.val])
                    ELSE [kind |-> "error", ns |-> NoArgs, err |-> InvalidChoice(o.val)]
               [] o.flag = "--audio_path" ->
                    Consume(Tail(av), [ns EXCEPT !.audio_path = Given(o.val)])
               [] o.flag = "--language" ->
                    Consume(Tail(av), [ns EXCEPT !.language = Given(o.val)])

\* parser.parse_args(): the Namespace ("ok"), or the help text on standard
\* output and SystemExit(0) ("help"), or the usage error on standard error
\* and SystemExit(2) ("error").
ParseArgs(av) == Consume(av, Defaults)

\* ------------------------------------------ the handlers and the exit
\* A faulty handler of main: a bare "except:", which takes SystemExit too.
MainCatchesAll(e) == IsInstance(e, "BaseException")

\* A faulty handler of main: "except ImportError", which lets the rest pass.
MainCatchesNarrow(e) == IsInstance(e, "ImportError")

\* Whether main's handler, "except Exception", takes exception e.
MainCatches(e) == IsInstance(e, "Exception")

\* A faulty handler of transcribe_audio: "except ImportError".
TranscribeCatchesNarrow(e) == IsInstance(e, "ImportError")

\* Whether transcribe_audio's handler, "except Exception", takes e.
TranscribeCatches(e) == IsInstance(e, "Exception")

\* Whether check_dependencies' handler, "except ImportError", takes e.
ProbeCatches(e) == IsInstance(e, "ImportError")

\* A faulty exit: sys.exit() called without its code, so that the status is 0.
UncaughtStatusZero(e) == 0

\* The status the interpreter exits with when e leaves main uncaught:
\* the code of a SystemExit, 1 after the traceback of anything else.
UncaughtStatus(e) == IF e.cls = "SystemExit" THEN e.code ELSE 1

\* Exception e is raised inside main's try block, with `out` written to
\* standard output, the calls `tr` made so far and main's result `res`.  If
\* the handler takes it, it logs, makes the error record main's result,
\* prints it and calls sys.exit(1); otherwise e leaves main.  Either way
\* the process ends.
RaiseInMain(e, out, tr, res) ==
    /\ pc' = "exited"
    /\ result' = IF MainCatches(e) THEN ErrorDict(Str(e)) ELSE res
    /\ IF MainCatches(e)
       THEN /\ stdout' = out \o << LogLine("ERROR", "Unexpected error: " \o Str(e)),
                                  JsonLine(ErrorDict(Str(e))) >>
            /\ trace' = Append(tr, Call("print", "returned"))
            /\ handled' = Append(handled, Caught("main", e))
            /\ exitCode' = UncaughtStatus(SystemExit(1))
       ELSE /\ stdout' = out
            /\ trace' = tr
            /\ handled' = handled
            /\ exitCode' = UncaughtStatus(e)

\* A faulty handler of transcribe_audio: it prints the error record itself
\* before it returns it to main, which prints it again.
RaiseInTranscribePrints(e, tr) ==
    /\ stdout' = stdout \o << LogLine("ERROR", "Transcription error: " \o Str(e)),
                              JsonLine(ErrorDict(Str(e))) >>
    /\ result' = ErrorDict(Str(e))
    /\ handled' = Append(handled, Caught("transcribe_audio", e))
    /\ trace' = tr
    /\ pc' = "print"
    /\ UNCHANGED exitCode

\* Exception e is raised inside transcribe_audio's try block.  If the
\* handler takes it, it logs and returns the error record to main, which
\* goes on to print it; otherwise e is raised in main.
RaiseInTranscribe(e, tr) ==
    IF TranscribeCatches(e)
    THEN /\ stdout' = Append(stdout, LogLine("ERROR", "Transcription error: " \o Str(e)))
         /\ result' = ErrorDict(Str(e))
         /\ handled' = Append(handled, Caught("transcribe_audio", e))
         /\ trace' = tr
         /\ pc' = "print"
         /\ UNCHANGED exitCode
    ELSE RaiseInMain(e, stdout, tr, result)

\* Lines 87-89, 24-31: main calls setup_argparse.  When parse_args does not
\* return, the SystemExit it raises is raised inside main's try block.
SetupArgparse ==
    /\ pc = "main"
    /\ LET p == ParseArgs(argv)
       IN  CASE p.kind = "ok" ->
                  /\ args' = p.ns
                  /\ pc' = "check_dependencies"
                  /\ trace' = Append(trace, Call("parse_args", "returned"))
                  /\ UNCHANGED <<result, stdout, stderr, exitCode, handled>>
             [] p.kind = "help" ->
                  /\ RaiseInMain(SystemExit(0),
                                 stdout \o [i \in DOMAIN HelpLines |-> TextLine(HelpLines[i])],
                                 Append(trace, Call("parse_args", "raised")), result)
                  /\ UNCHANGED <<args, stderr>>
             [] p.kind = "error" ->
                  /\ stderr' = stderr \o UsageLines \o << "transcribe.py: error: " \o p.err >>
                  /\ RaiseInMain(SystemExit(2), stdout,
                                 Append(trace, Call("parse_args", "raised")), result)
                  /\ UNCHANGED args
    /\ UNCHANGED <<argv, fs, deps, raw>>

\* ---------------------------------------------------- check_dependencies
\* The probe imports whisper, torch and numpy in this order; imp gives what
\* each import does.  The position of the first import that fails, or 0.
FirstFailure(imp) ==
    IF \A i \in DOMAIN ProbeModules : imp[ProbeModules[i]] = "ok"
    THEN 0
    ELSE CHOOSE i \in DOMAIN ProbeModules :
           /\ imp[ProbeModules[i]] # "ok"
           /\ \A j \in 1..(i - 1) : imp[ProbeModules[j]] = "ok"

\* The exception the failing import of module m raises.
ImportFailure(cls, m) ==
    IF cls = "OSError"
    THEN Exc(cls, "cannot load shared library of " \o m)
    ELSE Exc(cls, "No module named '" \o m \o "'")

\* Lines 92, 33-42: main calls check_dependencies.  An ImportError is logged
\* and turned into False; any other exception leaves the probe and is raised
\* in main.
CheckDependencies ==
    /\ pc = "check_dependencies"
    /\ \E imp \in [{ProbeModules[i] : i \in DOMAIN ProbeModules} -> ImportOutcomes] :
         LET f == FirstFailure(imp)
             e == ImportFailure(imp[ProbeModules[f]], ProbeModules[f])
         IN  IF f = 0
             THEN /\ deps' = TRUE
                  /\ pc' = "if_deps"
                  /\ trace' = Append(trace, Call("check_dependencies", "True"))
                  /\ UNCHANGED <<result, stdout, exitCode, handled>>
             ELSE IF ProbeCatches(e)
             THEN /\ deps' = FALSE
                  /\ pc' = "if_deps"
                  /\ stdout' = Append(stdout, LogLine("ERROR", "Missing dependency: " \o Str(e)))
                  /\ handled' = Append(handled, Caught("check_dependencies", e))
                  /\ trace' = Append(trace, Call("check_dependencies", "False"))
                  /\ UNCHANGED <<result, exitCode>>
             ELSE /\ RaiseInMain(e, stdout,
                                 Append(trace, Call("check_dependencies", "raised")), result)
                  /\ UNCHANGED deps
    /\ UNCHANGED <<argv, fs, args, raw, stderr>>

\* Lines 92-95: the probe returned False; main prints the fixed error record
\* and calls sys.exit(1), which raises SystemExit(1) inside the try block.
ReportMissingDependencies ==
    /\ pc = "if_deps"
    /\ ~deps
    /\ LET record == ErrorDict("Missing required dependencies")
       IN  RaiseInMain(SystemExit(1), Append(stdout, JsonLine(record)),
                       Append(trace, Call("print", "returned")), record)
    /\ UNCHANGED <<argv, fs, args, deps, raw, stderr>>

\* ------------------------------------------------------- transcribe_audio
\* A faulty transcribe_audio: the existence check is left out.
CheckAudioPathNoCheck ==
    /\ pc = "if_deps"
    /\ deps
    /\ stdout' = Append(stdout, LogLine("INFO", "Loading Whisper model: " \o args.model))
    /\ pc' = "load_model"
    /\ UNCHANGED <<argv, fs, args, deps, raw, result, stderr, exitCode, trace, handled>>

\* Lines 98-102, 56-65: main calls transcribe_audio, which imports whisper
\* (already imported by the probe) and checks that the audio file exists.
CheckAudioPath ==
    /\ pc = "if_deps"
    /\ deps
    /\ IF args.audio_path \notin fs
       THEN /\ result' = ErrorDict("Audio file not found: " \o args.audio_path)
            /\ pc' = "print"
            /\ trace' = Append(trace, Call("exists", "False"))
            /\ UNCHANGED stdout
       ELSE /\ stdout' = Append(stdout, LogLine("INFO", "Loading Whisper model: " \o args.model))
            /\ pc' = "load_model"
            /\ trace' = Append(trace, Call("exists", "True"))
            /\ UNCHANGED result
    /\ UNCHANGED <<argv, fs, args, deps, raw, stderr, exitCode, handled>>

\* A faulty load: a failed load_model is tried again.
LoadModelRetry ==
    /\ pc = "load_model"
    /\ \/ /\ stdout' = Append(stdout, LogLine("INFO", "Transcribing audio: " \o args.audio_path))
          /\ pc' = "transcribe"
          /\ trace' = Append(trace, Call("load_model", "returned"))
       \/ /\ Len(trace) < 6
          /\ trace' = Append(trace, Call("load_model", "raised"))
          /\ UNCHANGED <<stdout, pc>>
    /\ UNCHANGED <<argv, fs, args, deps, raw, result, stderr, exitCode, handled>>

\* Line 66: whisper.load_model(model_name) returns a model or raises.
LoadModel ==
    /\ pc = "load_model"
    /\ \/ /\ stdout' = Append(stdout, LogLine("INFO", "Transcribing audio: " \o args.audio_path))
          /\ pc' = "transcribe"
          /\ trace' = Append(trace, Call("load_model", "returned"))
          /\ UNCHANGED <<result, exitCode, handled>>
       \/ \E e \in LibraryErrors :
            RaiseInTranscribe(e, Append(trace, Call("load_model", "raised")))
    /\ UNCHANGED <<argv, fs, args, deps, raw, stderr>>

\* Lines 70-74: model.transcribe(audio_path, language=language, fp16=False)
\* returns a result or raises.
Transcribe ==
    /\ pc = "transcribe"
    /\ \/ \E r \in WhisperResults :
            /\ raw' = r
            /\ pc' = "map_result"
            /\ trace' = Append(trace, Call("transcribe", "returned"))
            /\ UNCHANGED <<result, stdout, exitCode, handled>>
       \/ \E e \in LibraryErrors :
            /\ RaiseInTranscribe(e, Append(trace, Call("transcribe", "raised")))
            /\ UNCHANGED raw
    /\ UNCHANGED <<argv, fs, args, deps, stderr>>

\* The keys the success record reads from the library's result, in order.
ResultKeys == <<"text", "segments", "language">>

\* A faulty mapping: the library's result is passed through as it is.
SuccessDictRaw(r) == r

\* Lines 76-80: the dict transcribe_audio returns on success.
SuccessDict(r) == [i \in DOMAIN ResultKeys |-> Item(ResultKeys[i], Get(r, ResultKeys[i]))]

\* The first key of ResultKeys that r lacks: the KeyError of lines 77-79.
MissingKey(r) ==
    ResultKeys[CHOOSE i \in DOMAIN ResultKeys :
                 /\ ~HasKey(r, ResultKeys[i])
                 /\ \A j \in 1..(i - 1) : HasKey(r, ResultKeys[j])]

\* Lines 76-80: map the library's result into the success record.
MapResult ==
    /\ pc = "map_result"
    /\ IF \A i \in DOMAIN ResultKeys : HasKey(raw, ResultKeys[i])
       THEN /\ result' = SuccessDict(raw)
            /\ pc' = "print"
            /\ UNCHANGED <<stdout, exitCode, trace, handled>>
       ELSE RaiseInTranscribe(Exc("KeyError", MissingKey(raw)), trace)
    /\ UNCHANGED <<argv, fs, args, deps, raw, stderr>>

\* Line 105 and the return of main: json.dumps(result) is printed and the
\* process ends with status 0; if json.dumps raises, the TypeError is raised
\* in main.
PrintResult ==
    /\ pc = "print"
    /\ IF DictSerializable(result)
       THEN /\ stdout' = Append(stdout, JsonLine(result))
            /\ trace' = Append(trace, Call("print", "returned"))
            /\ pc' = "exited"
            /\ exitCode' = 0
            /\ UNCHANGED <<result, handled>>
       ELSE RaiseInMain(NotSerializableError, stdout, trace, result)
    /\ UNCHANGED <<argv, fs, args, deps, raw, stderr>>

Next ==
    \/ SetupArgparse
    \/ CheckDependencies
    \/ ReportMissingDependencies
    \/ CheckAudioPath
    \/ LoadModel
    \/ Transcribe
    \/ MapResult
    \/ PrintResult

Spec == Init /\ [][Next]_vars


\* ------------------------------------------------------------ the claims
Exited == pc = "exited"

\* The command line is one parse_args returns a Namespace for: --audio_path
\* is given, every --model value is one of the five names, and there is no
\* -h/--help.
ValidModels == {"tiny", "base", "small", "medium", "large"}
ArgFlag(f) == \E i \in DOMAIN argv : argv[i].flag = f
InvalidModelAt(i) == argv[i].flag = "--model" /\ argv[i].val \notin ValidModels
ArgsParse ==
    /\ ArgFlag("--audio_path")
    /\ ~ArgFlag("--help")
    /\ \A i \in DOMAIN argv : ~InvalidModelAt(i)

\* The audio path of the command line: the value of its last --audio_path.
AudioPathArg ==
    argv[CHOOSE i \in DOMAIN argv :
           /\ argv[i].flag = "--audio_path"
           /\ \A j \in DOMAIN argv : j > i => argv[j].flag # "--audio_path"].val

JsonCount == Len(JsonLines(stdout))
Printed == [i \in DOMAIN JsonLines(stdout) |-> JsonLines(stdout)[i].json]
Called(step) == \E i \in DOMAIN trace : trace[i].step = step
Outcome(step, out) == \E i \in DOMAIN trace : trace[i] = Call(step, out)
CaughtBy(by) == \E i \in DOMAIN handled : handled[i].by = by
LibraryRaised == Outcome("load_model", "raised") \/ Outcome("transcribe", "raised")

SuccessKeys == {"text", "segments", "language"}
ErrorKeys == {"error"}

\* C1: in a run whose arguments parse, never more than one JSON object is
\* on standard output, and exactly one is there when the process has ended,
\* whichever path the run took.
C1_ExactlyOneJson ==
    ArgsParse => /\ JsonCount <= 1
                 /\ Exited => JsonCount = 1

\* A run that ended on the runtime-error path (the library raised).
C1_Witness ==
    /\ Exited /\ ArgsParse /\ LibraryRaised /\ JsonCount = 1

\* C2: every printed JSON object has the key set {text, segments, language}
\* or the key set {error}, each key once; a run that transcribed without any
\* exception prints the success shape.
C2_TwoShapes ==
    /\ \A i \in DOMAIN Printed :
         /\ Keys(Printed[i]) \in {SuccessKeys, ErrorKeys}
         /\ Len(Printed[i]) = Cardinality(Keys(Printed[i]))
    /\ (Exited /\ Outcome("transcribe", "returned") /\ handled = <<>>)
         => /\ JsonCount = 1
            /\ Keys(Printed[1]) = SuccessKeys

\* A successful run whose library result carried a further key.
C2_Witness ==
    /\ Exited /\ handled = <<>> /\ HasKey(raw, "duration")
    /\ JsonCount = 1 /\ Keys(Printed[1]) = SuccessKeys

\* The audio path of the command line names no existing file.
PathMissing == ArgFlag("--audio_path") /\ AudioPathArg \notin fs
NotFoundRecord == ErrorDict("Audio file not found: " \o AudioPathArg)

\* C3 as stated: every run with valid arguments and a non-existent path
\* prints the not-found record and never calls model load or inference.
C3_Original ==
    (ArgsParse /\ PathMissing)
      => /\ ~Called("load_model") /\ ~Called("transcribe")
         /\ Exited => Printed = << NotFoundRecord >>

\* C3 (amended): with valid arguments and a non-existent path, model load
\* and inference are never called, and a run in which the dependency probe
\* succeeded prints exactly the not-found record.
C3_NotFound ==
    (ArgsParse /\ PathMissing)
      => /\ ~Called("load_model") /\ ~Called("transcribe")
         /\ (Exited /\ Outcome("check_dependencies", "True"))
              => Printed = << NotFoundRecord >>

C3_Witness ==
    /\ Exited /\ ArgsParse /\ PathMissing /\ Outcome("exists", "False")
    /\ Printed = << NotFoundRecord >>

\* C4: when the probe fails on an ImportError, the run prints exactly the
\* record {"error": "Missing required dependencies"}, exits with status 1
\* and never reaches the existence check, model load or inference.
C4_MissingDependencies ==
    Outcome("check_dependencies", "False")
      => /\ ~Called("exists") /\ ~Called("load_model") /\ ~Called("transcribe")
         /\ ~CaughtBy("main")
         /\ Exited => /\ Printed = << ErrorDict("Missing required dependencies") >>
                      /\ exitCode = 1

C4_Witness ==
    /\ Exited /\ Outcome("check_dependencies", "False") /\ exitCode = 1
    /\ JsonCount = 1

\* C5: an exception raised by model load or inference is caught inside
\* transcribe_audio, and the run ends having printed exactly the record
\* {"error": <the message of that exception>}.
C5_RuntimeErrorRecord ==
    LibraryRaised
      => /\ ~CaughtBy("main")
         /\ \E i \in DOMAIN handled :
              /\ handled[i].by = "transcribe_audio"
              /\ handled[i].exc \in LibraryErrors
              /\ Exited => Printed = << ErrorDict(handled[i].exc.msg) >>

C5_Witness ==
    /\ Exited /\ Outcome("transcribe", "raised")
    /\ Printed = << ErrorDict("CUDA out of memory") >>

\* C6 as stated: a run in which model load or inference raised ends with
\* exit status 1.
C6_Original == (Exited /\ LibraryRaised) => exitCode = 1

\* C6 (amended): a run in which model load or inference raised ends with
\* exit status 0: the exception is turned into the result of
\* transcribe_audio and main returns normally.
C6_RuntimeErrorExitsZero == (Exited /\ LibraryRaised) => exitCode = 0

C6_Witness == Exited /\ Outcome("load_model", "raised") /\ exitCode = 0

\* C7: in a run whose arguments parse, the exit status is 1 exactly when the
\* probe returned False or an exception reached main's handler, and 0
\* otherwise.
C7_ExitCode ==
    (Exited /\ ArgsParse)
      => /\ exitCode \in {0, 1}
         /\ exitCode = 1 <=> (Outcome("check_dependencies", "False") \/ CaughtBy("main"))

\* A run that ended with status 1 because json.dumps raised in main.
C7_Witness ==
    /\ Exited /\ ArgsParse /\ exitCode = 1 /\ CaughtBy("main")
    /\ Outcome("transcribe", "returned")

\* A --model value outside the five names is on the command line.
InvalidModelGiven == \E i \in DOMAIN argv : InvalidModelAt(i)

\* -h/--help stands before the first --model value outside the five names.
HelpComesFirst ==
    \E i \in DOMAIN argv :
      /\ argv[i].flag = "--help"
      /\ \A j \in DOMAIN argv : j < i => ~InvalidModelAt(j)

\* C8: with a --model value outside the five names, the run ends inside
\* argument parsing and nothing else runs: no probe, no existence check, no
\* model load, no inference, no JSON print.  It ends with the usage error
\* and status 2, unless -h/--help stands before the value: then parsing
\* ends at the help option, with status 0.
C8_InvalidModelStopsAtParse ==
    InvalidModelGiven
      => /\ \A i \in DOMAIN trace : trace[i] = Call("parse_args", "raised")
         /\ JsonCount = 0
         /\ Exited => IF HelpComesFirst
                      THEN exitCode = 0
                      ELSE exitCode = 2 /\ stdout = <<>> /\ stderr # <<>>

C8_Witness ==
    /\ Exited
    /\ argv = << Opt("--audio_path", AudioPath(1)), Opt("--model", "huge") >>
    /\ trace = << Call("parse_args", "raised") >>
    /\ exitCode = 2

\* C9 as stated: every run, whatever failure occurs, has printed exactly one
\* JSON object when it exits.
C9_Original == Exited => JsonCount = 1

\* C9 (amended): a run for whose arguments parse_args returns has printed
\* exactly one JSON object when it exits; a run that ends in argument
\* parsing has printed none: it exits with status 2, the usage error on
\* standard error and nothing on standard output, or, on -h/--help, with
\* status 0 and the help text on standard output.
C9_OneJsonUnlessParseEnds ==
    Exited => IF ArgsParse
              THEN JsonCount = 1
              ELSE /\ JsonCount = 0
                   /\ \/ exitCode = 2 /\ stdout = <<>> /\ stderr # <<>>
                      \/ /\ exitCode = 0 /\ ArgFlag("--help")
                         /\ stderr = <<>>
                         /\ Len(stdout) = Len(HelpLines)
                         /\ \A i \in DOMAIN stdout : stdout[i].kind = "text"
                   /\ ~ArgFlag("--help") => exitCode = 2

\* A run that ended in a usage error.
C9_Witness == Exited /\ ~ArgsParse /\ ~ArgFlag("--help") /\ JsonCount = 0 /\ exitCode = 2

\* The place of each step in the order of a run.
Rank(step) ==
    CASE step = "parse_args" -> 1
      [] step = "check_dependencies" -> 2
      [] step = "exists" -> 3
      [] step = "load_model" -> 4
      [] step = "transcribe" -> 5
      [] step = "print" -> 6

\* C10: the steps of a run happen in the order parse, probe, existence
\* check, model load, inference, print, each at most once; model load only
\* after the probe returned True and the file was found; inference only
\* after model load returned; nothing follows a step that raised, except
\* the one print of the error record.
C10_StepOrder ==
    /\ \A i, j \in DOMAIN trace : i < j => Rank(trace[i].step) < Rank(trace[j].step)
    /\ Called("load_model") => /\ Outcome("check_dependencies", "True")
                               /\ Outcome("exists", "True")
    /\ Called("transcribe") => Outcome("load_model", "returned")
    /\ \A i, j \in DOMAIN trace :
         (i < j /\ trace[i].out = "raised") => trace[j].step = "print"

C10_Witness ==
    /\ Exited
    /\ trace = << Call("parse_args", "returned"), Call("check_dependencies", "True"),
                  Call("exists", "True"), Call("load_model", "returned"),
                  Call("transcribe", "returned"), Call("print", "returned") >>

====
